---- MODULE Spec2Model ----
(***************************************************************************)
(* The framed command client of deno_watchman (class Client) as a state    *)
(* machine: the command queue, the in-flight slot, the socket, the BSER    *)
(* decoder and the connect() tasks of one client, run by a single-threaded *)
(* event loop.  Every action is one handler run to completion: a public    *)
(* call (command, end), the resumption of a connect() task at one of its   *)
(* awaits, or one timer of a decoder (BunserBuf.processLater).  The        *)
(* watchman server and the CLI subprocess are the environment.             *)
(*                                                                         *)
(* Commands are numbered in the order of their command() calls, and are    *)
(* values dumpToBuffer can encode.  A chunk read from the socket is        *)
(* abstracted to the one whole PDU it completes; a value is the set of the *)
(* fields of the decoded object that the client reads ("subscription",     *)
(* "log", "error"), tagged with its origin.  A completion callback may     *)
(* call command(); listeners and completions make no other call on the     *)
(* client, and `error` has a listener.                                     *)
(***************************************************************************)
EXTENDS Integers, Sequences, FiniteSets, TLC

\* Bound of the model: the inputs of a run, which are the calls of command()
\* (those made by completions too), the calls of end() and the PDUs the
\* server sends.
MaxInputs == 5

Null == 0

\* connect() is only called by command(): there are no more connections
\* than commands.
Conns == 1..MaxInputs

\* const unilateralTags = ["subscription", "log"]
unilateralTags == <<"subscription", "log">>

VARIABLES
  commands,        \* this.commands: the queue, oldest first
  currentCommand,  \* this.currentCommand: the in-flight slot, or Null
  socket,          \* this.socket: the connection held, or Null
  bunser,          \* this.bunser: the decoder held, or Null
  connecting,      \* this.connecting
  task,            \* position of the k-th connect() invocation
  proc,            \* per connect(): the handle of the CLI subprocess it spawned
  sub,             \* per submitted command: how it was enqueued
  done,            \* completion callbacks invoked so far, in order
  written,         \* socket.write calls so far: <<command, connection>>
  closed,          \* connections on which socket.close() was called
  out,             \* the handler that ran last, and what it emitted and called
  sockEnv,         \* whether WATCHMAN_SOCK is set in the environment
  pending,         \* per decoder: PDUs appended, their timer not yet run
  broken,          \* decoders whose process() threw out of a value event
  answered,        \* per connection: commands the server has answered
  inputs           \* inputs so far

\* The codec (src/bser/mod.ts) and the capability check are modelled further
\* down with specifications of their own, over these variables; the client's
\* specification leaves them alone.
VARIABLES
  acc,             \* an Accumulator, with the outcome of the last call on it
  state,           \* BunserBuf.state
  pduLen,          \* BunserBuf.pduLen
  wire,            \* the byte stream a BunserBuf is fed, and how far
  timers,          \* the callbacks of processLater that have not run yet
  events,          \* what a BunserBuf has emitted, oldest first
  io               \* the call of a function: its input and its result

clientVars == <<commands, currentCommand, socket, bunser, connecting, task,
                proc, sub, done, written, closed, out, inputs>>
envVars == <<sockEnv, pending, broken, answered>>
codecVars == <<acc, state, pduLen, wire, timers, events, io>>
vars == <<clientVars, envVars, codecVars>>

NoVal == [has |-> {}, for |-> 0, conn |-> 0]

\* The client's fields, and the history a handler adds to, as one record.
Cl ==
  [commands |-> commands, currentCommand |-> currentCommand, socket |-> socket,
   bunser |-> bunser, connecting |-> connecting, task |-> task, proc |-> proc,
   sub |-> sub,
   done |-> done, written |-> written, closed |-> closed, out |-> out,
   inputs |-> inputs]

Range(s) == {s[i] : i \in 1..Len(s)}

\* EventEmitter.emit(name)
emit(s, name) == [s EXCEPT !.out = Append(@, <<"emit", name, 0>>)]

\* The handler about to run: the record of what it emits starts anew.
enter(s, name, k) == [s EXCEPT !.out = << <<"call", name, k>> >>]


\* connect() invocations made so far.
Started(s) == Cardinality({k \in Conns : s.task[k] # "none"})

\* sendNextCommand without its check of the in-flight slot.
sendNextCommandUnguarded(s) ==
  IF s.commands = <<>> THEN s
  ELSE LET c == Head(s.commands)
           s1 == [s EXCEPT !.currentCommand = c, !.commands = Tail(@)]
       IN IF s1.socket = Null
            THEN [s1 EXCEPT !.out = Append(@, <<"throw", "TypeError", c>>)]
            ELSE [s1 EXCEPT !.written = Append(@, <<c, s1.socket>>)]

\* Try to send the next queued command, if any.  this.socket!.write on a
\* null socket throws a TypeError after the command was moved into the slot.
sendNextCommand(s) ==
  IF s.currentCommand # Null THEN s
  ELSE IF s.commands = <<>> THEN s
  ELSE LET c == Head(s.commands)
           s1 == [s EXCEPT !.currentCommand = c, !.commands = Tail(@)]
       IN IF s1.socket = Null
            THEN [s1 EXCEPT !.out = Append(@, <<"throw", "TypeError", c>>)]
            ELSE [s1 EXCEPT !.written = Append(@, <<c, s1.socket>>)]

\* The first part of makeSock(sockname), up to its await of Deno.connect:
\* a fresh decoder is installed.
makeSock(s, k) == [s EXCEPT !.bunser = k, !.task[k] = "connect"]

\* connect() up to its first await: Deno.connect when WATCHMAN_SOCK is set,
\* otherwise Deno.run spawns the CLI and connect() awaits its status.
connect(s) ==
  LET k == Started(s) + 1
  IN IF sockEnv THEN makeSock(s, k)
     ELSE [s EXCEPT !.task[k] = "status", !.proc[k] = "open"]

\* proc.close(), the last statement of connect(): reached when the await of
\* makeSock returns and when the catch block of the discovery has run.
procClose(s, k) ==
  IF s.proc[k] = "open" THEN [s EXCEPT !.proc[k] = "closed"] ELSE s

\* command(args, done)
command(s) ==
  LET c == Len(s.sub) + 1
      how == [disc |-> s.socket = Null,
              await |-> IF s.socket # Null THEN 0
                        ELSE IF s.connecting THEN Started(s)
                        ELSE Started(s) + 1]
      s1 == [s EXCEPT !.commands = Append(@, c), !.sub = Append(@, how),
                      !.inputs = @ + 1]
  IN IF s1.socket = Null
       THEN IF ~s1.connecting
              THEN connect([s1 EXCEPT !.connecting = TRUE])
              ELSE s1
       ELSE sendNextCommand(s1)

\* Whether one more command() fits the bounds of the model.
CanSubmit(s) == s.inputs < MaxInputs

\* cmd.cb(error, resp): the completion of command c runs; it finds the
\* in-flight slot as the caller left it.  The completions of the commands
\* in R submit one further command each.
cb(s, c, res, v, R) ==
  LET s1 == [s EXCEPT !.done = Append(@, [cmd |-> c, res |-> res, val |-> v]),
                      !.out = Append(@, <<"cb", res, c, s.currentCommand>>)]
  IN IF c \in R /\ CanSubmit(s1) THEN command(s1) ELSE s1

RECURSIVE forEachCb(_, _, _, _)
\* cmds.forEach(cmd => cmd.cb(error))
forEachCb(s, cmds, why, R) ==
  IF cmds = <<>> THEN s
  ELSE forEachCb(cb(s, Head(cmds), why, NoVal, R), Tail(cmds), why, R)

\* cancelCommands with the in-flight command put behind the queued ones.
cancelCommandsPush(s, why, R) ==
  LET cmds == IF s.currentCommand # Null
                THEN s.commands \o <<s.currentCommand>>
                ELSE s.commands
      s1 == [s EXCEPT !.commands = <<>>, !.currentCommand = Null]
  IN forEachCb(s1, cmds, why, R)

\* cancelCommands that leaves the in-flight slot as it is.
cancelCommandsKeepsSlot(s, why, R) ==
  LET cmds == IF s.currentCommand # Null
                THEN <<s.currentCommand>> \o s.commands
                ELSE s.commands
      s1 == [s EXCEPT !.commands = <<>>]
  IN forEachCb(s1, cmds, why, R)

\* cancelCommands that empties the queue after the completions have run.
cancelCommandsClearsLast(s, why, R) ==
  LET cmds == IF s.currentCommand # Null
                THEN <<s.currentCommand>> \o s.commands
                ELSE s.commands
      s1 == [s EXCEPT !.currentCommand = Null]
  IN [forEachCb(s1, cmds, why, R) EXCEPT !.commands = <<>>]

\* cancelCommands(why)
cancelCommands(s, why, R) ==
  LET cmds == IF s.currentCommand # Null
                THEN <<s.currentCommand>> \o s.commands
                ELSE s.commands
      s1 == [s EXCEPT !.commands = <<>>, !.currentCommand = Null]
  IN forEachCb(s1, cmds, why, R)

\* The loop over unilateralTags stopping after the first tag of the list.
unilateralFirstTag(v) ==
  IF unilateralTags[1] \in v.has THEN unilateralTags[1] ELSE ""

\* The tag the loop over unilateralTags leaves in `unilateral` ("" for false):
\* the last tag of the list that the object has.
unilateral(v) ==
  IF unilateralTags[2] \in v.has THEN unilateralTags[2]
  ELSE IF unilateralTags[1] \in v.has THEN unilateralTags[1]
  ELSE ""

\* The listener clearing the in-flight slot after the completion has run.
onValueLateClear(s, v, R) ==
  LET s1 == IF unilateral(v) # "" THEN emit(s, unilateral(v))
            ELSE IF s.currentCommand # Null
              THEN LET c == s.currentCommand
                       s0 == IF "error" \in v.has
                               THEN cb(s, c, "error", v, R)
                               ELSE cb(s, c, "ok", v, R)
                   IN [s0 EXCEPT !.currentCommand = Null]
            ELSE s
  IN sendNextCommand(s1)

\* The listener of the decoder's "value" event.
onValue(s, v, R) ==
  LET s1 == IF unilateral(v) # "" THEN emit(s, unilateral(v))
            ELSE IF s.currentCommand # Null
              THEN LET c == s.currentCommand
                       s0 == [s EXCEPT !.currentCommand = Null]
                   IN IF "error" \in v.has
                        THEN cb(s0, c, "error", v, R)
                        ELSE cb(s0, c, "ok", v, R)
            ELSE s
  IN sendNextCommand(s1)

\* end() that closes the socket and keeps holding it.
endKeepsSocket(s, R) ==
  LET s1 == cancelCommands(s, "The client was ended", R)
      s2 == IF s1.socket # Null
              THEN [s1 EXCEPT !.closed = @ \cup {s1.socket},
                              !.out = Append(@, <<"close", "socket", s1.socket>>)]
              ELSE s1
  IN [s2 EXCEPT !.bunser = Null]

\* end() that does not drop the decoder.
endKeepsDecoder(s, R) ==
  LET s1 == cancelCommands(s, "The client was ended", R)
  IN IF s1.socket # Null
       THEN [s1 EXCEPT !.closed = @ \cup {s1.socket},
                       !.out = Append(@, <<"close", "socket", s1.socket>>),
                       !.socket = Null]
       ELSE s1

\* end()
end(s, R) ==
  LET s1 == cancelCommands(s, "The client was ended", R)
      s2 == IF s1.socket # Null
              THEN [s1 EXCEPT !.closed = @ \cup {s1.socket},
                              !.out = Append(@, <<"close", "socket", s1.socket>>),
                              !.socket = Null]
              ELSE s1
  IN [s2 EXCEPT !.bunser = Null]

\* The finally block emitting `end` before it cancels the commands.
finallyEndFirst(s, k, R) ==
  LET s1 == [s EXCEPT !.socket = Null, !.bunser = Null]
      s2 == cancelCommands(emit(s1, "end"), "The watchman connection was closed", R)
  IN [s2 EXCEPT !.task[k] = "ended"]

\* The finally block of makeSock.
finally(s, k, R) ==
  LET s1 == [s EXCEPT !.socket = Null, !.bunser = Null]
      s2 == cancelCommands(s1, "The watchman connection was closed", R)
  IN [emit(s2, "end") EXCEPT !.task[k] = "ended"]

\* makeSock resumed with the connection opened, up to the first read.
connected(s, k) ==
  LET s1 == [s EXCEPT !.socket = k, !.connecting = FALSE]
  IN [sendNextCommand(emit(s1, "connect")) EXCEPT !.task[k] = "read"]

\* The catch block of makeSock; "operation canceled" is not reported.
catch(s, message) ==
  LET s1 == [s EXCEPT !.connecting = FALSE]
  IN IF message # "operation canceled" THEN emit(s1, "error") ELSE s1

\* Whether the handler threw out of sendNextCommand.
Threw(s) == \E i \in 1..Len(s.out) : s.out[i][1] = "throw"


\* The handler's result becomes the client's state; a handler of the client
\* touches nothing of the codec's variables.
Apply(r) ==
  /\ commands' = r.commands
  /\ currentCommand' = r.currentCommand
  /\ socket' = r.socket
  /\ bunser' = r.bunser
  /\ connecting' = r.connecting
  /\ task' = r.task
  /\ proc' = r.proc
  /\ sub' = r.sub
  /\ done' = r.done
  /\ written' = r.written
  /\ closed' = r.closed
  /\ out' = r.out
  /\ inputs' = r.inputs
  /\ UNCHANGED codecVars

\* The commands whose completion has not run: queued or in flight.
Pending(s) == Range(s.commands) \cup ({s.currentCommand} \ {Null})

\* The commands written to connection k, in order.
WritesOn(k) == SelectSeq(written, LAMBDA w : w[2] = k)

\* The objects the server sends unasked.
Unilaterals == {{"subscription"}, {"log", "error"}}

Init ==
  /\ commands = <<>>
  /\ currentCommand = Null
  /\ socket = Null
  /\ bunser = Null
  /\ connecting = FALSE
  /\ task = [k \in Conns |-> "none"]
  /\ proc = [k \in Conns |-> "none"]
  /\ sub = <<>>
  /\ done = <<>>
  /\ written = <<>>
  /\ closed = {}
  /\ out = <<>>
  /\ sockEnv \in BOOLEAN
  /\ pending = [k \in Conns |-> <<>>]
  /\ broken = {}
  /\ answered = [k \in Conns |-> 0]
  /\ inputs = 0
  /\ acc = Null /\ state = Null /\ pduLen = Null /\ wire = Null
  /\ timers = Null /\ events = Null /\ io = Null

\* The application calls command().
Command ==
  /\ CanSubmit(Cl)
  /\ Apply(command(enter(Cl, "command", 0)))
  /\ UNCHANGED envVars

\* 1 when the handler that ran last was end(), else 0.
AfterEnd == IF out # <<>> /\ out[1][2] = "end" THEN 1 ELSE 0

\* The application calls end().
End ==
  /\ inputs < MaxInputs
  /\ \E R \in SUBSET Pending(Cl) :
       Apply(end([enter(Cl, "end", AfterEnd) EXCEPT !.inputs = @ + 1], R))
  /\ UNCHANGED envVars

\* connect() resumes from `await proc.status()`: on a non-zero exit
\* spawnError reports the error and connect() returns.
DiscoverStatus(k) ==
  /\ task[k] = "status"
  /\ \E success \in BOOLEAN :
       LET s == enter(Cl, "status", k)
       IN IF success
            THEN Apply([s EXCEPT !.task[k] = "output"])
            ELSE Apply([emit(s, "error") EXCEPT !.task[k] = "dfail"])
  /\ UNCHANGED envVars

\* connect() resumes from `await proc.output()`: the output does not parse
\* (the catch block reports it and connect() runs on to proc.close()),
\* carries an `error` field (connect() returns), or names the socket, and
\* then makeSock starts.
DiscoverOutput(k) ==
  /\ task[k] = "output"
  /\ \E o \in {"garbage", "error", "sockname"} :
       LET s == enter(Cl, "output", k)
       IN IF o = "sockname"
            THEN Apply(makeSock(s, k))
            ELSE IF o = "garbage"
              THEN Apply(procClose([emit(s, "error") EXCEPT !.task[k] = "dfail"], k))
              ELSE Apply([emit(s, "error") EXCEPT !.task[k] = "dfail"])
  /\ UNCHANGED envVars

\* makeSock resumes from `await Deno.connect` with the connection.
ConnectOk(k) ==
  /\ task[k] = "connect"
  /\ Apply(connected(enter(Cl, "connect", k), k))
  /\ UNCHANGED envVars

\* Deno.connect throws: the catch block, then the finally block; makeSock
\* returns to connect(), which closes the subprocess handle if it has one.
ConnectFail(k) ==
  /\ task[k] = "connect"
  /\ \E R \in SUBSET Pending(Cl) :
       Apply(procClose(
               [finally(catch(enter(Cl, "connectfail", k), "connect error"), k, R)
                  EXCEPT !.task[k] = "cfail"], k))
  /\ UNCHANGED envVars

\* The objects the server may send down connection k: the answer to the
\* oldest command it has not answered, with or without an `error` field, or
\* an unasked subscription update or log line.
Incoming(k) ==
  {[has |-> h, for |-> WritesOn(k)[answered[k] + 1][1], conn |-> k] :
     h \in IF answered[k] < Len(WritesOn(k)) THEN {{}, {"error"}} ELSE {}}
  \cup {[has |-> h, for |-> 0, conn |-> k] :
     h \in Unilaterals}

\* The read loop of connection k gets a chunk, here one PDU of the server:
\* it goes to the decoder the client holds now, if any, which arranges to
\* decode it on a later turn.
ReadChunk(k) ==
  /\ task[k] = "read"
  /\ k \notin closed
  /\ inputs < MaxInputs
  /\ \E v \in Incoming(k) :
       /\ pending' = IF bunser # Null /\ bunser \notin broken
                       THEN [pending EXCEPT ![bunser] = Append(@, v)]
                       ELSE pending
       /\ answered' = IF v.for # 0 THEN [answered EXCEPT ![k] = @ + 1] ELSE answered
  /\ Apply([enter(Cl, "chunk", k) EXCEPT !.inputs = @ + 1])
  /\ UNCHANGED <<sockEnv, broken>>

\* The read loop of connection k ends: at the end of the stream (the server
\* closed the connection), or with a read that throws: "operation canceled"
\* after the local close, or another error.  makeSock returns to connect(),
\* which closes the subprocess handle if it has one.
Teardown(k) ==
  /\ task[k] = "read"
  /\ \E how \in {"eof", "operation canceled", "read error"},
        R \in SUBSET Pending(Cl) :
       /\ how = "eof" => k \notin closed
       /\ how = "operation canceled" => k \in closed
       /\ LET s == enter(Cl, "teardown", k)
          IN Apply(procClose(
                     finally(IF how = "eof" THEN s ELSE catch(s, how), k, R), k))
  /\ UNCHANGED envVars

\* A timer of decoder d runs process(): the next PDU is decoded and emitted.
\* An exception thrown by the listener leaves process() before it resets
\* its state: processLater reports it as an error and the decoder decodes
\* nothing further.
ProcessValue(d) ==
  /\ pending[d] # <<>>
  /\ \E R \in SUBSET Pending(Cl) :
       LET r == onValue(enter(Cl, "value", d), Head(pending[d]), R)
       IN IF Threw(r)
            THEN /\ Apply(emit(r, "error"))
                 /\ broken' = broken \cup {d}
                 /\ pending' = [pending EXCEPT ![d] = <<>>]
            ELSE /\ Apply(r)
                 /\ broken' = broken
                 /\ pending' = [pending EXCEPT ![d] = Tail(@)]
  /\ UNCHANGED <<sockEnv, answered>>

Next ==
  \/ Command
  \/ End
  \/ \E k \in Conns : DiscoverStatus(k)
  \/ \E k \in Conns : DiscoverOutput(k)
  \/ \E k \in Conns : ConnectOk(k)
  \/ \E k \in Conns : ConnectFail(k)
  \/ \E k \in Conns : ReadChunk(k)
  \/ \E k \in Conns : Teardown(k)
  \/ \E d \in Conns : ProcessValue(d)

Spec == Init /\ [][Next]_vars


(***************************************************************************)
(* The properties.                                                         *)
(***************************************************************************)

\* The commands whose completion has run.
DoneCmds == {done[i].cmd : i \in 1..Len(done)}

\* How many times x occurs in the sequence q.
Count(q, x) == Cardinality({i \in 1..Len(q) : q[i] = x})

closedMessage == "The watchman connection was closed"
endedMessage == "The client was ended"

\* C1: completions are invoked in the order in which the commands were
\* submitted: commands are numbered by their command() calls, and the
\* numbers in the log of completions increase.
C1_CompletionOrder ==
  \A i, j \in 1..Len(done) : i < j => done[i].cmd < done[j].cmd

\* C1, witness: three completions in a row, the first by a response, a
\* later one by a cancellation.
C1_Witness ==
  /\ Len(done) >= 3
  /\ done[1].res = "ok"
  /\ \E i \in 2..Len(done) : done[i].res \in {closedMessage, endedMessage}

\* C2: every submitted command is in exactly one place, the queue, the
\* in-flight slot or the log of completions, and is there once.
C2_ExactlyOnePlace ==
  \A c \in 1..Len(sub) :
    Count(commands, c) + (IF currentCommand = c THEN 1 ELSE 0)
      + Cardinality({i \in 1..Len(done) : done[i].cmd = c}) = 1

\* C2, witness: one command completed by a response, one by a cancellation,
\* and a third in flight.
C2_Witness ==
  /\ \E i \in 1..Len(done) : done[i].res = "ok"
  /\ \E i \in 1..Len(done) : done[i].res \in {endedMessage, closedMessage}
  /\ currentCommand # Null

Cbs(o) == SelectSeq(o, LAMBDA e : e[1] = "cb")

\* The commands cancelCommands finds: the in-flight one, then the queue.
InOrder ==
  (IF currentCommand # Null THEN <<currentCommand>> ELSE <<>>) \o commands

\* The step is a run of handler `name`.
Ran(name) == out' # <<>> /\ out'[1][2] = name

\* The step fails exactly the commands that were queued or in flight, each
\* once, in order and with `why`.
Cancels(why) ==
  /\ Len(Cbs(out')) = Len(InOrder)
  /\ \A i \in 1..Len(InOrder) :
       Cbs(out')[i][2] = why /\ Cbs(out')[i][3] = InOrder[i]
  /\ done' = done \o [i \in 1..Len(InOrder) |->
                        [cmd |-> InOrder[i], res |-> why, val |-> NoVal]]

\* What the teardown of a connection does, but for the decoder.
TeardownStep ==
  /\ Cancels(closedMessage)
  /\ out'[Len(out')] = <<"emit", "end", 0>>
  /\ Count(out', <<"emit", "end", 0>>) = 1
  /\ socket' = Null

\* C4 as claimed: when the read loop of a connection ends, the N commands
\* queued or in flight are failed with "The watchman connection was closed",
\* N completions in all, then one `end` event follows, and the socket and
\* the decoder are null.
C4_TeardownClaimed ==
  [][Ran("teardown") => TeardownStep /\ bunser' = Null]_vars

\* C4, amended: the same, but the decoder is null only if none of those
\* completions submitted a command that started a connect(), which installs
\* the decoder of the next connection before the `end` event.
C4_Teardown ==
  [][Ran("teardown") =>
       /\ TeardownStep
       /\ \/ bunser' = Null
          \/ /\ Len(sub') > Len(sub)
             /\ task[bunser'] = "none" /\ task'[bunser'] = "connect"]_vars

\* C4, witness: a teardown has failed two commands, and the completion of
\* one submitted a command whose connect() installed a decoder.
C4_Witness ==
  /\ out # <<>> /\ out[1][2] = "teardown"
  /\ Len(Cbs(out)) >= 2
  /\ bunser # Null

C6_SentAfterConnect ==
  \A c \in 1..Len(sub) :
    LET k == sub[c].await
    IN (sub[c].disc /\ k \in Conns /\ task[k] = "read") =>
         /\ c = currentCommand => <<c, k>> \in Range(written)
         /\ c \in Range(commands) => currentCommand # Null
         /\ c \in DoneCmds =>
              \/ <<c, k>> \in Range(written)
              \/ \E i \in 1..Len(done) : done[i].cmd = c /\ done[i].res = endedMessage

\* C7: end() fails the commands that were queued or in flight with "The
\* client was ended"; afterwards only commands submitted by those
\* completions are queued or in flight, the socket was closed and is null,
\* and the decoder is null.
C7_End ==
  [][Ran("end") =>
       /\ Cancels(endedMessage)
       /\ \A c \in Range(commands') \cup ({currentCommand'} \ {Null}) : c > Len(sub)
       /\ socket' = Null
       /\ bunser' = Null
       /\ socket # Null =>
            socket \in closed' /\ Count(out', <<"close", "socket", socket>>) = 1]_vars

\* C7, witness: end() has failed two commands and closed the socket, and a
\* command submitted by one of the completions is in flight.
C7_Witness ==
  /\ out # <<>> /\ out[1][2] = "end"
  /\ Len(Cbs(out)) >= 2
  /\ \E i \in 1..Len(out) : out[i][1] = "close"
  /\ currentCommand # Null

\* The step is an end() that directly follows an end().
SecondEnd == out # <<>> /\ out[1][2] = "end" /\ Ran("end")

\* A step that runs no completion, closes no socket and leaves the queue,
\* the in-flight slot, the socket and the decoder as they are.
NoEffect ==
  /\ \A i \in 1..Len(out') : out'[i][1] \notin {"cb", "close"}
  /\ UNCHANGED <<commands, currentCommand, socket, bunser, done, closed>>

\* C8 as claimed: a second end() with no operation in between has no effect.
C8_EndTwiceClaimed == [][SecondEnd => NoEffect]_vars

\* C8, amended: a second end() with no operation in between has no effect
\* when nothing is queued or in flight, that is when no completion run by
\* the first end() submitted a command.
C8_EndTwice ==
  [][(SecondEnd /\ commands = <<>> /\ currentCommand = Null) => NoEffect]_vars

\* C8, witness: a second end() directly after an end() that had failed a
\* command and closed the socket.
C8_Witness ==
  /\ out = << <<"call", "end", 1>> >>
  /\ closed # {}
  /\ done # <<>>

\* C9 as claimed: when socket discovery or the socket connection fails, an
\* `error` event is emitted and every command pending then is failed.
C9_FailureFailsPending ==
  [][(\E k \in Conns : task[k] \in {"status", "output", "connect"}
                         /\ task'[k] \in {"dfail", "cfail"}) =>
       /\ Count(out', <<"emit", "error", 0>>) >= 1
       /\ \A c \in Pending(Cl) :
            \E i \in 1..Len(done') : done'[i].cmd = c /\ done'[i].res # "ok"]_vars

C11_ProcClosed ==
  \A k \in Conns :
    task[k] \notin {"none", "status", "output"} => proc[k] # "open"

\* C20: the command in the in-flight slot has been written to a socket, and
\* no command has been written twice; so sendNextCommand has moved no
\* command into the slot while there was no socket to write it to.
C20_SendRule ==
  /\ currentCommand # Null =>
       \E k \in Conns : <<currentCommand, k>> \in Range(written)
  /\ \A i, j \in 1..Len(written) : written[i][1] = written[j][1] => i = j

(***************************************************************************)
(* The BSER codec (src/bser/mod.ts).                                       *)
(*                                                                         *)
(* A value of the program is a pair <<t, v>>: t is its type and v what it   *)
(* holds.  "number" holds an integer of 32 bits; "bignum" is an            *)
(* integer-valued number beyond 32 bits, held by the 8 bytes of its 64-bit *)
(* two's complement, lowest first; "real" is a number that is no integer   *)
(* or is not finite, held by the 8 bytes of its double, lowest first;      *)
(* "string" holds code points; "Int64" holds the 8 bytes of the carrier's  *)
(* buffer, highest first; "array" holds values; "object" holds pairs of a  *)
(* key (code points) and a value, in the order of insertion; "Buffer"      *)
(* holds bytes.  The host is little-endian (isBigEndian is false).         *)
(***************************************************************************)
Val(t, v) == <<t, v>>

\* The type of a value, and what it holds.
typeof(x) == x[1]
the(x) == x[2]

undefined == Val("undefined", 0)

\* Naming a value: CHOOSE it \in {f(x) : x \in {e}} : TRUE is f(e), the one
\* element of the set, with e named x in f.  The operators below name what
\* they compute this way, their first argument too ({... : c \in {c0}}), so
\* that it is evaluated once however often it is used.

\* The bytes i0..i1 of a sequence (from 1), empty when i1 < i0.
Sub(s, i0, i1) == [i \in 1..(i1 - i0 + 1) |-> s[i0 + i - 1]]

\* n >= 0 as w bytes, lowest first.
LE(n, w) == [i \in 1..w |-> (n \div (256 ^ (i - 1))) % 256]

\* The number that w <= 4 bytes, lowest first, hold when read without sign.
Unsigned(bs) ==
  LET RECURSIVE sum(_)
      sum(i) == IF i > Len(bs) THEN 0 ELSE bs[i] * (256 ^ (i - 1)) + sum(i + 1)
  IN sum(1)

\* Each byte complemented.
Not(bs) == [i \in 1..Len(bs) |-> 255 - bs[i]]

\* buf.writeInt8 / writeInt16LE / writeInt32LE: the two's complement of v in
\* w bytes, lowest first.
toLE(v, w) == IF v >= 0 THEN LE(v, w) ELSE Not(LE(-(v + 1), w))

\* buf.readInt8 / readInt16LE / readInt32LE
fromLE(bs) ==
  IF bs[Len(bs)] < 128 THEN Unsigned(bs) ELSE -Unsigned(Not(bs)) - 1

\* Whether v fits the signed integers of w bytes, for w in {1, 2, 4}.
InRange(v, w) ==
  LET max == IF w = 1 THEN 127 ELSE IF w = 2 THEN 32767 ELSE 2147483647
  IN -max - 1 <= v /\ v <= max

\* Buffer.alloc(size): zero-filled.  A Buffer is held by its length and its
\* bytes up to the last one written; the bytes behind these are 0.
alloc(size) == [length |-> size, bytes |-> <<>>]

\* buf[i], i counted from 0.
at(b, i) == IF 0 <= i /\ i < Len(b.bytes) THEN b.bytes[i + 1] ELSE 0

\* buf.slice(start, stop), as bytes.
slice(b, start, stop) == [i \in 1..(stop - start) |-> at(b, start + i - 1)]

\* source.copy(b, off): the bytes `data` written into b from offset off on.
copy(b0, off, data) ==
  (CHOOSE it \in {(
    LET n == IF off + Len(data) > Len(b.bytes) THEN off + Len(data)
             ELSE Len(b.bytes)
    IN [b EXCEPT !.bytes =
          [i \in 1..n |-> IF off < i /\ i <= off + Len(data)
                            THEN data[i - off] ELSE at(b, i - 1)]]
  ) : b \in {b0}} : TRUE)

RECURSIVE utf8(_)
\* The UTF-8 bytes of a string (Buffer.byteLength, buf.write): code points
\* of the basic plane.
utf8(s) ==
  IF s = <<>> THEN <<>>
  ELSE LET c == Head(s)
       IN (IF c < 128 THEN <<c>>
           ELSE IF c < 2048 THEN <<192 + (c \div 64), 128 + (c % 64)>>
           ELSE <<224 + (c \div 4096), 128 + ((c \div 64) % 64),
                  128 + (c % 64)>>)
          \o utf8(Tail(s))

\* Whether b is a continuation byte.
Cont(bs, i) == i <= Len(bs) /\ 128 <= bs[i] /\ bs[i] < 192

RECURSIVE utf8Decode(_)
\* buf.toString("utf-8"): a byte that starts no well-formed sequence of one
\* to three bytes decodes to U+FFFD.
utf8Decode(bs) ==
  IF bs = <<>> THEN <<>>
  ELSE LET b == bs[1]
       IN IF b < 128 THEN <<b>> \o utf8Decode(Tail(bs))
          ELSE IF 194 <= b /\ b < 224 /\ Cont(bs, 2)
            THEN <<(b - 192) * 64 + (bs[2] - 128)>>
                 \o utf8Decode(Sub(bs, 3, Len(bs)))
          ELSE IF 224 <= b /\ b < 240 /\ Cont(bs, 2) /\ Cont(bs, 3)
                  /\ (b - 224) * 4096 + (bs[2] - 128) * 64 >= 2048
            THEN <<(b - 224) * 4096 + (bs[2] - 128) * 64 + (bs[3] - 128)>>
                 \o utf8Decode(Sub(bs, 4, Len(bs)))
          ELSE <<65533>> \o utf8Decode(Tail(bs))

\* buf.toString("utf-8", start, stop)
toString(b0, start, stop) ==
  (CHOOSE it \in {(
    LET s == IF start < 0 THEN 0 ELSE start
        e == IF stop > b.length THEN b.length ELSE stop
    IN utf8Decode(slice(b, s, e))
  ) : b \in {b0}} : TRUE)

RECURSIVE pow2From(_, _)
pow2From(p, size) == IF p >= size THEN p ELSE pow2From(2 * p, size)

\* Find the next power-of-2 >= size
nextPow2(size) == pow2From(1, size)

MAX_INT8 == 127
MAX_INT16 == 32767
MAX_INT32 == 2147483647

\* Byteswap an arbitrary buffer, flipping from one endian to the other.
byteswap64(buf) == [i \in 1..Len(buf) |-> buf[Len(buf) - i + 1]]

\* The doubles Infinity and -Infinity.
Infinity == Val("real", <<0, 0, 0, 0, 0, 0, 240, 127>>)
NegInfinity == Val("real", <<0, 0, 0, 0, 0, 0, 240, 255>>)

\* isFinite(x) of a number: a double whose exponent bits are all set is
\* Infinity, -Infinity or NaN.
isFinite(x) ==
  \/ typeof(x) \in {"number", "bignum"}
  \/ typeof(x) = "real" /\ ~(the(x)[8] % 128 = 127 /\ the(x)[7] >= 240)

\* new Int64(val) of an integer-valued number: the carrier's buffer holds
\* the 64-bit two's complement of val, highest byte first.
Int64(val) ==
  Val("Int64",
      byteswap64(IF typeof(val) = "number"
                   THEN toLE(the(val), 4) \o (IF the(val) >= 0 THEN <<0, 0, 0, 0>>
                                           ELSE <<255, 255, 255, 255>>)
                   ELSE the(val)))

\* Int64.valueOf(): the number the carrier holds when it is within the safe
\* integers (-2^53..2^53), else an infinity of its sign.
valueOf(x) ==
  LET le == byteswap64(the(x))
      neg == le[8] >= 128
      m == IF neg THEN Not(le) ELSE le
  IN IF Sub(m, 5, 8) = <<0, 0, 0, 0>> /\ m[4] < 128
       THEN Val("number", fromLE(Sub(le, 1, 4)))
     ELSE IF m[8] = 0 /\ (m[7] < 32 \/ (~neg /\ m[7] = 32
                          /\ Sub(m, 1, 6) = <<0, 0, 0, 0, 0, 0>>))
       THEN Val("bignum", le)
     ELSE IF neg THEN NegInfinity ELSE Infinity

\* new Accumulator(initsize), with the outcome of the last call on it: the
\* value it returned (ret) and the error it threw (err, "" for none).
Accumulator(initsize) ==
  [buf |-> alloc(nextPow2(IF initsize = 0 THEN 8192 ELSE initsize)),
   readOffset |-> 0, writeOffset |-> 0, ret |-> undefined, err |-> ""]

\* A call starts: the outcome of the previous one is forgotten.
call(c) == [c EXCEPT !.ret = undefined, !.err = ""]

\* throw new Error(message): the statements that follow are skipped, which
\* every operation below does by returning at once when err is set.
throw(c, message) == [c EXCEPT !.err = message]

\* How much we can write into this buffer without allocating
writeAvail(c) == c.buf.length - c.writeOffset

\* How much we can read
readAvail(c) == c.writeOffset - c.readOffset

\* Ensure that we have enough space for size bytes
reserve(c0, size) ==
  (CHOOSE it \in {(
    IF c.err # "" \/ size < writeAvail(c) THEN c
    ELSE (CHOOSE it \in {IF size < writeAvail(c1) THEN c1
               ELSE [c1 EXCEPT !.buf.length =
                                 nextPow2(c1.buf.length + size - writeAvail(c1))] :
               c1 \in {IF c.readOffset > 0
                         THEN [c EXCEPT !.buf = copy(@, 0,
                                                    slice(c.buf, c.readOffset,
                                                          c.writeOffset)),
                                        !.writeOffset = @ - c.readOffset,
                                        !.readOffset = 0]
                         ELSE c}} : TRUE)
  ) : c \in {c0}} : TRUE)

\* append(buf) of a Buffer or of a string
append(c0, buf) ==
  (CHOOSE it \in {(
    IF c.err # "" THEN c
    ELSE (CHOOSE it \in {(CHOOSE it \in {[c1 EXCEPT !.buf = copy(@, c1.writeOffset, data),
                                !.writeOffset = @ + Len(data)] :
                     c1 \in {reserve(c, Len(data))}} : TRUE) :
               data \in {IF typeof(buf) = "Buffer" THEN the(buf)
                         ELSE utf8(the(buf))}} : TRUE)
  ) : c \in {c0}} : TRUE)

assertReadableSize(c0, size) ==
  (CHOOSE it \in {(
    IF c.err # "" THEN c
    ELSE IF readAvail(c) < size THEN throw(c, "wanted to read more bytes")
    ELSE c
  ) : c \in {c0}} : TRUE)

peekString(c, size) ==
  (CHOOSE it \in {IF c1.err # "" THEN c1
        ELSE [c1 EXCEPT !.ret = Val("string",
                                    toString(c1.buf, c1.readOffset,
                                             c1.readOffset + size))] :
        c1 \in {assertReadableSize(c, size)}} : TRUE)

readString(c, size) ==
  (CHOOSE it \in {IF c1.err # "" THEN c1 ELSE [c1 EXCEPT !.readOffset = @ + size] :
        c1 \in {peekString(c, size)}} : TRUE)

\* peekInt(size); a read before the start of the Buffer throws a RangeError.
peekInt(c, size) ==
  (CHOOSE it \in {IF c1.err # "" THEN c1
        ELSE IF size \notin {1, 2, 4, 8}
          THEN throw(c1, "invalid integer size")
        ELSE IF c1.readOffset < 0 THEN throw(c1, "offset out of range")
        ELSE IF size = 8
          THEN [c1 EXCEPT !.ret = Val("Int64", byteswap64(
                             slice(c1.buf, c1.readOffset, c1.readOffset + 8)))]
        ELSE [c1 EXCEPT !.ret = Val("number", fromLE(
                           slice(c1.buf, c1.readOffset,
                                 c1.readOffset + size)))] :
        c1 \in {assertReadableSize(c, size)}} : TRUE)

\* ival of readInt: the number of an Int64 that holds a finite one.
finite(ival) ==
  IF typeof(ival) = "Int64" /\ isFinite(valueOf(ival)) THEN valueOf(ival)
  ELSE ival

readInt(c, bytes) ==
  (CHOOSE it \in {IF c1.err # "" THEN c1
        ELSE [c1 EXCEPT !.ret = finite(c1.ret), !.readOffset = @ + bytes] :
        c1 \in {peekInt(c, bytes)}} : TRUE)

\* peekDouble(); the double is held by its bytes.
peekDouble(c) ==
  (CHOOSE it \in {IF c1.err # "" THEN c1
        ELSE IF c1.readOffset < 0 THEN throw(c1, "offset out of range")
        ELSE [c1 EXCEPT !.ret = Val("real", slice(c1.buf, c1.readOffset,
                                                  c1.readOffset + 8))] :
        c1 \in {assertReadableSize(c, 8)}} : TRUE)

readDouble(c) ==
  (CHOOSE it \in {IF c1.err # "" THEN c1 ELSE [c1 EXCEPT !.readOffset = @ + 8] :
        c1 \in {peekDouble(c)}} : TRUE)

readAdvance(c0, size) ==
  (CHOOSE it \in {(
    (CHOOSE it \in {IF c1.err # "" THEN c1 ELSE [c1 EXCEPT !.readOffset = @ + size] :
          c1 \in {IF size > 0 THEN assertReadableSize(c, size)
                  ELSE IF size < 0 /\ c.readOffset + size < 0
                    THEN throw(c, "advance with negative offset")
                  ELSE c}} : TRUE)
  ) : c \in {c0}} : TRUE)

\* writeByte(value); buf.writeInt8 throws a RangeError for a value that is
\* no signed byte.
writeByte(c, value) ==
  (CHOOSE it \in {IF c1.err # "" THEN c1
        ELSE IF ~InRange(value, 1) THEN throw(c1, "value out of range")
        ELSE [c1 EXCEPT !.buf = copy(@, c1.writeOffset, toLE(value, 1)),
                        !.writeOffset = @ + 1] :
        c1 \in {reserve(c, 1)}} : TRUE)

\* writeInt(value, size); the writes of the Buffer throw a RangeError for a
\* value their width does not hold.
writeInt(c, value, size) ==
  (CHOOSE it \in {IF c1.err # "" THEN c1
        ELSE IF size \notin {1, 2, 4}
          THEN throw(c1, "unsupported integer size")
        ELSE IF ~InRange(value, size) THEN throw(c1, "value out of range")
        ELSE [c1 EXCEPT !.buf = copy(@, c1.writeOffset, toLE(value, size)),
                        !.writeOffset = @ + size] :
        c1 \in {reserve(c, size)}} : TRUE)

\* writeDouble(value), value a "real".
writeDouble(c, value) ==
  (CHOOSE it \in {IF c1.err # "" THEN c1
        ELSE [c1 EXCEPT !.buf = copy(@, c1.writeOffset, the(value)),
                        !.writeOffset = @ + 8] :
        c1 \in {reserve(c, 8)}} : TRUE)

(***************************************************************************)
(* The specifications of the codec.  The client takes no part in them: its *)
(* variables stay as constructed.                                          *)
(***************************************************************************)
ClientIdle ==
  /\ commands = <<>> /\ currentCommand = Null /\ socket = Null
  /\ bunser = Null /\ connecting = FALSE
  /\ task = [k \in Conns |-> "none"] /\ proc = [k \in Conns |-> "none"]
  /\ sub = <<>> /\ done = <<>> /\ written = <<>> /\ closed = {}
  /\ out = <<>> /\ inputs = 0 /\ sockEnv = FALSE
  /\ pending = [k \in Conns |-> <<>>] /\ broken = {}
  /\ answered = [k \in Conns |-> 0]

\* Bounds of the specification of the Accumulator: the calls of a run, and
\* the sizes passed to them, which run from -MaxSize to MaxSize.
MaxOps == 3
MaxSize == 9

\* const acc = new bser.Accumulator(8)
InitSize == 8

Sizes == (-MaxSize)..MaxSize

\* "hello"
hello == Val("string", <<104, 101, 108, 108, 111>>)

\* What is appended: "hello", a string of two bytes in UTF-8, a Buffer.
Data == {hello, Val("string", <<233>>), Val("Buffer", <<0, 1, 3>>)}

\* 1.5
OneAndAHalf == Val("real", <<0, 0, 0, 0, 0, 0, 248, 63>>)

InitAcc ==
  /\ ClientIdle
  /\ acc = Accumulator(InitSize)
  /\ io = [op |-> "new", args |-> <<InitSize>>, n |-> 0]
  /\ state = Null /\ pduLen = Null /\ wire = Null /\ timers = Null
  /\ events = Null

\* One call on the Accumulator: its outcome, and the record of the call.
Called(op, args, c) ==
  /\ acc' = c
  /\ io' = [op |-> op, args |-> args, n |-> io.n + 1]
  /\ UNCHANGED <<clientVars, envVars, state, pduLen, wire, timers, events>>

Reserve ==
  /\ io.n < MaxOps
  /\ \E n \in Sizes : Called("reserve", <<n>>, reserve(call(acc), n))

AppendData ==
  /\ io.n < MaxOps
  /\ \E d \in Data : Called("append", <<d>>, append(call(acc), d))

PeekString ==
  /\ io.n < MaxOps
  /\ \E n \in Sizes : Called("peekString", <<n>>, peekString(call(acc), n))

ReadString ==
  /\ io.n < MaxOps
  /\ \E n \in Sizes : Called("readString", <<n>>, readString(call(acc), n))

PeekInt ==
  /\ io.n < MaxOps
  /\ \E n \in Sizes : Called("peekInt", <<n>>, peekInt(call(acc), n))

ReadInt ==
  /\ io.n < MaxOps
  /\ \E n \in Sizes : Called("readInt", <<n>>, readInt(call(acc), n))

PeekDouble ==
  /\ io.n < MaxOps
  /\ Called("peekDouble", <<>>, peekDouble(call(acc)))

ReadDouble ==
  /\ io.n < MaxOps
  /\ Called("readDouble", <<>>, readDouble(call(acc)))

ReadAdvance ==
  /\ io.n < MaxOps
  /\ \E n \in Sizes : Called("readAdvance", <<n>>, readAdvance(call(acc), n))

WriteByte ==
  /\ io.n < MaxOps
  /\ \E v \in {1, 200} : Called("writeByte", <<v>>, writeByte(call(acc), v))

WriteInt ==
  /\ io.n < MaxOps
  /\ \E v \in {-2, 300}, n \in {1, 2, 4, 8} :
       Called("writeInt", <<v, n>>, writeInt(call(acc), v, n))

WriteDouble ==
  /\ io.n < MaxOps
  /\ Called("writeDouble", <<OneAndAHalf>>,
            writeDouble(call(acc), OneAndAHalf))

NextAcc ==
  \/ Reserve \/ AppendData \/ PeekString \/ ReadString \/ PeekInt \/ ReadInt
  \/ PeekDouble \/ ReadDouble \/ ReadAdvance \/ WriteByte \/ WriteInt
  \/ WriteDouble

SpecAcc == InitAcc /\ [][NextAcc]_vars

\* C17: the cursors of the Accumulator stay within its buffer, and the read
\* cursor behind the write cursor, after every call, failed ones included.
C17_AccumulatorInvariant ==
  /\ 0 <= acc.readOffset
  /\ acc.readOffset <= acc.writeOffset
  /\ acc.writeOffset <= acc.buf.length

\* The bytes written and not read yet.
unread(c) == slice(c.buf, c.readOffset, c.writeOffset)

\* What reserve(n) is to do to the Accumulator c, giving d.
ReserveEffect(c, d, n) ==
  /\ readAvail(d) = readAvail(c)
  /\ unread(d) = unread(c)
  /\ writeAvail(c) > n =>
       /\ d.buf = c.buf
       /\ d.readOffset = c.readOffset
       /\ d.writeOffset = c.writeOffset
  /\ writeAvail(c) <= n =>
       /\ d.readOffset = 0
       /\ d.buf.length # c.buf.length => c.buf.length - readAvail(c) <= n
  /\ writeAvail(d) >= n

\* The step is a call of reserve.
ReserveStep == io'.op = "reserve" /\ io'.n = io.n + 1

\* C18: reserve(n) keeps the unread bytes and their number, does nothing
\* when more than n bytes can be written, otherwise moves the unread bytes
\* to the start, enlarges the buffer only when that is not enough, and
\* leaves room for n bytes.
C18_Reserve ==
  [][ReserveStep => ReserveEffect(acc, acc', io'.args[1])]_vars

\* reserve(n) does all of this to an Accumulator whose read cursor is not
\* below 0.
ReserveOfSound ==
  [][ReserveStep /\ acc.readOffset >= 0
       => ReserveEffect(acc, acc', io'.args[1])]_vars

BSER_ARRAY == 0
BSER_OBJECT == 1
BSER_STRING == 2
BSER_INT8 == 3
BSER_INT16 == 4
BSER_INT32 == 5
BSER_INT64 == 6
BSER_REAL == 7
BSER_TRUE == 8
BSER_FALSE == 9
BSER_NULL == 10
BSER_TEMPLATE == 11
BSER_SKIP == 12

ST_NEED_PDU == 0
ST_FILL_PDU == 1

true == Val("boolean", TRUE)
false == Val("boolean", FALSE)
null == Val("null", 0)

\* BunserBuf.raise(reason)
raise(c, reason) == throw(c, reason)

expectCode(c, expected) ==
  (CHOOSE it \in {IF c1.err # "" THEN c1
        ELSE IF the(c1.ret) # expected THEN raise(c1, "expected bser opcode")
        ELSE c1 : c1 \in {readInt(c, 1)}} : TRUE)

\* decodeInt(relaxSizeAsserts): the integer, or false for "need more data".
\* How many bytes the integer of a code has, or 0.
sizeOf(code) ==
  IF code = BSER_INT8 THEN 1
  ELSE IF code = BSER_INT16 THEN 2
  ELSE IF code = BSER_INT32 THEN 4
  ELSE IF code = BSER_INT64 THEN 8
  ELSE 0

decodeInt(c0, relaxSizeAsserts) ==
  (CHOOSE it \in {(
    IF c.err # "" THEN c
    ELSE IF relaxSizeAsserts /\ readAvail(c) < 1 THEN [c EXCEPT !.ret = false]
    ELSE (CHOOSE it \in {IF c1.err # "" THEN c1
               ELSE (CHOOSE it \in {IF size = 0
                            THEN raise(c1, "invalid bser int encoding")
                          ELSE IF relaxSizeAsserts /\ readAvail(c1) < 1 + size
                            THEN [c1 EXCEPT !.ret = false]
                          ELSE readInt(readAdvance(c1, 1), size) :
                          size \in {sizeOf(the(c1.ret))}} : TRUE) :
               c1 \in {peekInt(assertReadableSize(c, 1), 1)}} : TRUE)
  ) : c \in {c0}} : TRUE)

\* decodeString(); the lengths of the model's inputs are integers of 32
\* bits.
decodeString(c) ==
  (CHOOSE it \in {IF c1.err # "" THEN c1
        ELSE IF typeof(c1.ret) # "number"
          THEN throw(c1, "length beyond 32 bits")
        ELSE readString(c1, the(c1.ret)) :
        c1 \in {decodeInt(expectCode(c, BSER_STRING), FALSE)}} : TRUE)

\* res[key] = val: a new key goes behind the others, a key the object has
\* keeps its place.
setProp(obj, key, val) ==
  IF \E i \in 1..Len(obj) : obj[i][1] = key
    THEN [i \in 1..Len(obj) |-> IF obj[i][1] = key THEN <<key, val>> ELSE obj[i]]
    ELSE Append(obj, <<key, val>>)

\* The number of turns of `for (i = 0; i < nitems; ++i)`; with a count
\* beyond 32 bits the loop runs until a read throws.
turns(nitems) == IF typeof(nitems) = "number" THEN the(nitems) ELSE MAX_INT32

RECURSIVE decodeAny(_), arrayItems(_, _, _), objectItems(_, _, _),
          templateItem(_, _, _, _), templateItems(_, _, _, _)

\* The loop of decodeArray: n items to go, arr decoded so far. The turns of
\* the loop are taken as the first half of them and then the rest, so that
\* the evaluation nests no deeper than the logarithm of n.
arrayItems(c0, n, arr) ==
  (CHOOSE it \in {(
    IF c.err # "" THEN c
    ELSE IF n <= 0 THEN [c EXCEPT !.ret = Val("array", arr)]
    ELSE IF n = 1
      THEN (CHOOSE it \in {IF c1.err # "" THEN c1
                 ELSE [c1 EXCEPT !.ret = Val("array", Append(arr, c1.ret))] :
                 c1 \in {decodeAny(c)}} : TRUE)
    ELSE (CHOOSE it \in {IF c1.err # "" THEN c1
               ELSE arrayItems(c1, n - (n \div 2), the(c1.ret)) :
               c1 \in {arrayItems(c, n \div 2, arr)}} : TRUE)
  ) : c \in {c0}} : TRUE)

decodeArray(c) ==
  (CHOOSE it \in {IF c1.err # "" THEN c1 ELSE arrayItems(c1, turns(c1.ret), <<>>) :
        c1 \in {decodeInt(expectCode(c, BSER_ARRAY), FALSE)}} : TRUE)

\* The loop of decodeObject.
objectItems(c0, n, res) ==
  (CHOOSE it \in {(
    IF c.err # "" THEN c
    ELSE IF n <= 0 THEN [c EXCEPT !.ret = Val("object", res)]
    ELSE (CHOOSE it \in {(CHOOSE it \in {objectItems(c2, n - 1,
                                 setProp(res, the(c1.ret), c2.ret)) :
                     c2 \in {decodeAny(c1)}} : TRUE) :
               c1 \in {decodeString(c)}} : TRUE)
  ) : c \in {c0}} : TRUE)

decodeObject(c) ==
  (CHOOSE it \in {IF c1.err # "" THEN c1 ELSE objectItems(c1, turns(c1.ret), <<>>) :
        c1 \in {decodeInt(expectCode(c, BSER_OBJECT), FALSE)}} : TRUE)

\* The inner loop of decodeTemplate, from key keyidx (from 1) on.
templateItem(c0, keys, keyidx, obj) ==
  (CHOOSE it \in {(
    IF c.err # "" THEN c
    ELSE IF keyidx > Len(keys) THEN [c EXCEPT !.ret = Val("object", obj)]
    ELSE (CHOOSE it \in {IF c1.err # "" THEN c1
               ELSE IF the(c1.ret) = BSER_SKIP
                 THEN templateItem(readAdvance(c1, 1), keys, keyidx + 1, obj)
               ELSE (CHOOSE it \in {templateItem(c2, keys, keyidx + 1,
                                       setProp(obj, the(keys[keyidx]), c2.ret)) :
                          c2 \in {decodeAny(c1)}} : TRUE) :
               c1 \in {peekInt(c, 1)}} : TRUE)
  ) : c \in {c0}} : TRUE)

\* The outer loop of decodeTemplate.
templateItems(c0, keys, n, arr) ==
  (CHOOSE it \in {(
    IF c.err # "" THEN c
    ELSE IF n <= 0 THEN [c EXCEPT !.ret = Val("array", arr)]
    ELSE (CHOOSE it \in {templateItems(c1, keys, n - 1, Append(arr, c1.ret)) :
               c1 \in {templateItem(c, keys, 1, <<>>)}} : TRUE)
  ) : c \in {c0}} : TRUE)

decodeTemplate(c) ==
  (CHOOSE it \in {(CHOOSE it \in {IF c2.err # "" THEN c2
              ELSE templateItems(c2, the(c1.ret), turns(c2.ret), <<>>) :
              c2 \in {decodeInt(c1, FALSE)}} : TRUE) :
        c1 \in {decodeArray(expectCode(c, BSER_TEMPLATE))}} : TRUE)

\* The switch of decodeAny on the code it peeked.
decodeCode(c1, code) ==
  CASE code \in {BSER_INT8, BSER_INT16, BSER_INT32, BSER_INT64} ->
         decodeInt(c1, FALSE)
    [] code = BSER_REAL -> readDouble(readAdvance(c1, 1))
    [] code = BSER_TRUE -> [readAdvance(c1, 1) EXCEPT !.ret = true]
    [] code = BSER_FALSE -> [readAdvance(c1, 1) EXCEPT !.ret = false]
    [] code = BSER_NULL -> [readAdvance(c1, 1) EXCEPT !.ret = null]
    [] code = BSER_STRING -> decodeString(c1)
    [] code = BSER_ARRAY -> decodeArray(c1)
    [] code = BSER_OBJECT -> decodeObject(c1)
    [] code = BSER_TEMPLATE -> decodeTemplate(c1)
    [] OTHER -> raise(c1, "unhandled bser opcode")

decodeAny(c) ==
  (CHOOSE it \in {IF c1.err # "" THEN c1 ELSE decodeCode(c1, the(c1.ret)) :
        c1 \in {peekInt(c, 1)}} : TRUE)

\* new BunserBuf(), with what it has emitted and the calls of processLater
\* whose timer has not run.  events also notes each run of the value
\* decoder, <<"decode", readAvail(), pduLen>>, before the value it emits.
BunserBuf ==
  [buf |-> Accumulator(0), state |-> ST_NEED_PDU, pduLen |-> undefined,
   events |-> <<>>, timers |-> 0, returned |-> FALSE]

\* processLater(): setTimeout(..., 0)
processLater(b) == [b EXCEPT !.timers = @ + 1]

\* The first block of process(), run in state ST_NEED_PDU.  The PDU lengths
\* of the model's inputs are integers of 32 bits.
needPdu(b0) ==
  (CHOOSE it \in {(
    IF readAvail(b.buf) < 2 THEN [b EXCEPT !.returned = TRUE]
    ELSE (CHOOSE it \in {IF c.err # "" THEN [b EXCEPT !.buf = c]
               ELSE IF c.ret = false
                 THEN [b EXCEPT !.buf = [readAdvance(c, -2)
                                           EXCEPT !.ret = undefined],
                                !.pduLen = false, !.returned = TRUE]
               ELSE IF typeof(c.ret) # "number"
                 THEN [b EXCEPT !.buf = throw(c, "length beyond 32 bits")]
               ELSE [b EXCEPT !.buf = reserve(c, the(c.ret)), !.pduLen = c.ret,
                              !.state = ST_FILL_PDU] :
               c \in {decodeInt(expectCode(expectCode(b.buf, 0), 1), TRUE)}} : TRUE)
  ) : b \in {b0}} : TRUE)

\* The second block of process(), run in state ST_FILL_PDU, without its
\* test of readAvail().
\* What process() does with the outcome c of the value decoder.
decoded(b0, c, synchronous) ==
  (CHOOSE it \in {(
    (CHOOSE it \in {IF c.err # "" THEN b1
          ELSE IF synchronous THEN [b1 EXCEPT !.returned = TRUE]
          ELSE [b1 EXCEPT !.buf.ret = undefined,
                          !.events = Append(@, <<"value", c.ret>>),
                          !.state = ST_NEED_PDU] :
          b1 \in {[b EXCEPT !.buf = c,
                            !.events = Append(@, <<"decode", readAvail(b.buf),
                                                  the(b.pduLen)>>)]}} : TRUE)
  ) : b \in {b0}} : TRUE)

fillPduEarly(b0, synchronous) ==
  (CHOOSE it \in {(
    decoded(b, decodeAny(b.buf), synchronous)
  ) : b \in {b0}} : TRUE)

\* The second block of process(), run in state ST_FILL_PDU.
fillPdu(b0, synchronous) ==
  (CHOOSE it \in {(
    IF readAvail(b.buf) < the(b.pduLen)
      THEN [b EXCEPT !.buf.ret = undefined, !.returned = TRUE]
    ELSE decoded(b, decodeAny(b.buf), synchronous)
  ) : b \in {b0}} : TRUE)

\* process() that does not arrange to run again while bytes are left.
\* The two blocks of process(), the second one run when the first one
\* neither returned nor threw.
blocks(b0, synchronous) ==
  (CHOOSE it \in {IF b1.returned \/ b1.buf.err # "" THEN b1
        ELSE IF b1.state = ST_FILL_PDU THEN fillPdu(b1, synchronous)
        ELSE b1 :
        b1 \in {IF b0.state = ST_NEED_PDU THEN needPdu(b0) ELSE b0}} : TRUE)

processOnce(b, synchronous) ==
  blocks([b EXCEPT !.returned = FALSE], synchronous)

\* process() that runs again at once, instead of on a later turn, while
\* bytes are left.
RECURSIVE processAll(_, _)
processAll(b, synchronous) ==
  (CHOOSE it \in {IF b2.returned \/ b2.buf.err # "" THEN b2
        ELSE IF ~synchronous /\ readAvail(b2.buf) > 0
          THEN processAll(b2, synchronous)
        ELSE b2 :
        b2 \in {blocks([b EXCEPT !.returned = FALSE], synchronous)}} : TRUE)

\* process(synchronous): the value is in buf.ret when it returns one, the
\* error in buf.err when it throws.
process(b, synchronous) ==
  (CHOOSE it \in {IF b2.returned \/ b2.buf.err # "" THEN b2
        ELSE IF ~synchronous /\ readAvail(b2.buf) > 0 THEN processLater(b2)
        ELSE b2 :
        b2 \in {blocks([b EXCEPT !.returned = FALSE], synchronous)}} : TRUE)

\* this.emit("error", err)
emitError(b) ==
  [b EXCEPT !.events = Append(@, <<"error", b.buf.err>>), !.buf.err = ""]

\* BunserBuf.append(buf, synchronous)
BunserBuf_append(b, buf, synchronous) ==
  (CHOOSE it \in {IF synchronous
          THEN IF b1.buf.err # "" THEN b1 ELSE process(b1, TRUE)
          ELSE IF b1.buf.err # "" THEN emitError(b1) ELSE processLater(b1) :
        b1 \in {[b EXCEPT !.buf = append(call(@), buf)]}} : TRUE)

\* The callback of the timer of processLater.
onTimeout(b) ==
  (CHOOSE it \in {IF b1.buf.err # "" THEN emitError(b1) ELSE b1 :
        b1 \in {process([b EXCEPT !.timers = @ - 1, !.buf = call(@)],
                        FALSE)}} : TRUE)

\* Math.abs(val) <= max of an integer-valued number, for max below 2^31; a
\* "bignum" is beyond every such max.
absLeq(val, max) ==
  typeof(val) = "number" /\ -max <= the(val) /\ the(val) <= max

\* dump_int64(buf, val): val.toBuffer() is big endian, and is swapped.
dump_int64(c, val) ==
  append(writeByte(c, BSER_INT64), Val("Buffer", byteswap64(the(val))))

\* dump_int with its comparisons strict.
dump_intStrict(c0, val) ==
  (CHOOSE it \in {(
    IF typeof(val) = "number" /\ -MAX_INT8 < the(val) /\ the(val) < MAX_INT8
      THEN writeInt(writeByte(c, BSER_INT8), the(val), 1)
    ELSE IF typeof(val) = "number" /\ -MAX_INT16 < the(val)
            /\ the(val) < MAX_INT16
      THEN writeInt(writeByte(c, BSER_INT16), the(val), 2)
    ELSE IF typeof(val) = "number" /\ -MAX_INT32 < the(val)
            /\ the(val) < MAX_INT32
      THEN writeInt(writeByte(c, BSER_INT32), the(val), 4)
    ELSE dump_int64(c, Int64(val))
  ) : c \in {c0}} : TRUE)

dump_int(c0, val) ==
  (CHOOSE it \in {(
    IF absLeq(val, MAX_INT8)
      THEN writeInt(writeByte(c, BSER_INT8), the(val), 1)
    ELSE IF absLeq(val, MAX_INT16)
      THEN writeInt(writeByte(c, BSER_INT16), the(val), 2)
    ELSE IF absLeq(val, MAX_INT32)
      THEN writeInt(writeByte(c, BSER_INT32), the(val), 4)
    ELSE dump_int64(c, Int64(val))
  ) : c \in {c0}} : TRUE)

\* The properties of an object, those whose value is undefined too.
allProps(props) == props

\* The properties of an object whose value is not undefined.
defined(props) == SelectSeq(props, LAMBDA p : typeof(p[2]) # "undefined")

RECURSIVE dump_any(_, _), dump_items(_, _), dump_props(_, _)

\* for (i = 0; i < val.length; ++i) dump_any(buf, val[i]): the first half
\* of the items and then the rest, which keeps the evaluation shallow.
dump_items(c0, items) ==
  (CHOOSE it \in {(
    IF c.err # "" \/ items = <<>> THEN c
    ELSE IF Len(items) = 1 THEN dump_any(c, items[1])
    ELSE dump_items(dump_items(c, Sub(items, 1, Len(items) \div 2)),
                    Sub(items, (Len(items) \div 2) + 1, Len(items)))
  ) : c \in {c0}} : TRUE)

\* The second loop of dump_any over the keys of an object.
dump_props(c0, props) ==
  (CHOOSE it \in {(
    IF c.err # "" \/ props = <<>> THEN c
    ELSE IF typeof(Head(props)[2]) = "undefined"
      THEN dump_props(c, Tail(props))
    ELSE dump_props(dump_any(dump_any(c, Val("string", Head(props)[1])),
                             Head(props)[2]), Tail(props))
  ) : c \in {c0}} : TRUE)

dump_any(c0, val) ==
  (CHOOSE it \in {(
    CASE c.err # "" -> c
      [] c.err = "" /\ typeof(val) \in {"number", "bignum"} -> dump_int(c, val)
      [] c.err = "" /\ typeof(val) = "real" ->
           writeDouble(writeByte(c, BSER_REAL), val)
      [] c.err = "" /\ typeof(val) = "string" ->
           append(dump_int(writeByte(c, BSER_STRING),
                           Val("number", Len(utf8(the(val))))), val)
      [] c.err = "" /\ typeof(val) = "boolean" ->
           writeByte(c, IF the(val) THEN BSER_TRUE ELSE BSER_FALSE)
      [] c.err = "" /\ typeof(val) = "null" -> writeByte(c, BSER_NULL)
      [] c.err = "" /\ typeof(val) = "Int64" -> dump_int64(c, val)
      [] c.err = "" /\ typeof(val) = "array" ->
           dump_items(dump_int(writeByte(c, BSER_ARRAY),
                               Val("number", Len(the(val)))), the(val))
      [] c.err = "" /\ typeof(val) = "object" ->
           dump_props(dump_int(writeByte(c, BSER_OBJECT),
                               Val("number", Len(defined(the(val))))),
                      the(val))
      [] OTHER -> throw(c, "cannot serialize type")
  ) : c \in {c0}} : TRUE)

\* dumpToBuffer(val): the Buffer is in ret, or the error in err.
dumpToBuffer(val) ==
  (CHOOSE it \in {(CHOOSE it \in {IF c4.err # "" THEN c4
              ELSE [c4 EXCEPT !.ret = Val("Buffer",
                                          slice(c4.buf, 0, c2.writeOffset))] :
              c4 \in {[writeInt([c2 EXCEPT !.writeOffset = 3],
                                c2.writeOffset - 7, 4)
                         EXCEPT !.writeOffset = c2.writeOffset]}} : TRUE) :
        c2 \in {dump_any(writeInt(writeByte(writeByte(writeByte(
                           Accumulator(0), 0), 1), BSER_INT32), 0, 4), val)}} : TRUE)

\* loadFromBuffer without its test for unread bytes.
loadFromBufferLax(input) ==
  (CHOOSE it \in {IF b.buf.err # "" THEN b
        ELSE IF typeof(b.buf.ret) = "undefined"
          THEN [b EXCEPT !.buf = throw(@, "no bser found in string")]
        ELSE b :
        b \in {BunserBuf_append(BunserBuf, input, TRUE)}} : TRUE)

\* loadFromBuffer(input): the decoder it made, with the value in buf.ret or
\* the error in buf.err.
loadFromBuffer(input) ==
  (CHOOSE it \in {IF b.buf.err # "" THEN b
        ELSE IF readAvail(b.buf) # 0
          THEN [b EXCEPT !.buf = throw([@ EXCEPT !.ret = undefined],
                                       "excess data found after input buffer")]
        ELSE IF typeof(b.buf.ret) = "undefined"
          THEN [b EXCEPT !.buf = throw(@, "no bser found in string")]
        ELSE b :
        b \in {BunserBuf_append(BunserBuf, input, TRUE)}} : TRUE)

(***************************************************************************)
(* The specification of dumpToBuffer and loadFromBuffer: a value is        *)
(* encoded, and the PDU, the PDU followed by more bytes, or a strict       *)
(* prefix of the PDU is decoded.                                           *)
(***************************************************************************)
\* Bounds: the integers lie within Delta of the limits of the widths, and
\* up to MaxExtra bytes follow a PDU.
Delta == 2
MaxExtra == 2

\* 2^31 + e in 64 bits, lowest byte first.
Wide(e) == LE(e, 3) \o <<128, 0, 0, 0, 0>>

\* The number s * (base + d), for s of 1 or -1.
Integer(s, base, d) ==
  IF base < MAX_INT32 \/ d <= 0 THEN Val("number", s * (base + d))
  ELSE IF s = 1 THEN Val("bignum", Wide(d - 1))
  ELSE IF d = 1 THEN Val("number", -MAX_INT32 - 1)
  ELSE Val("bignum", Not(Wide(d - 2)))

Limits == <<MAX_INT8, MAX_INT16, MAX_INT32>>

\* The integers near the limits, of both signs.
nearLimits ==
  [i \in 1..(6 * (2 * Delta + 1)) |->
     LET j == (i - 1) \div (2 * Delta + 1)
         d == ((i - 1) % (2 * Delta + 1)) - Delta
     IN Integer(IF j % 2 = 0 THEN 1 ELSE -1, Limits[(j \div 2) + 1], d)]

\* 2^53 - 1, 2^53 + 2, 2^60 and -2^60
maxSafe == Val("bignum", <<255, 255, 255, 255, 255, 255, 31, 0>>)
unsafe == Val("bignum", <<2, 0, 0, 0, 0, 0, 32, 0>>)
twoTo60 == Val("bignum", <<0, 0, 0, 0, 0, 0, 0, 16>>)
minusTwoTo60 == Val("bignum", <<0, 0, 0, 0, 0, 0, 0, 240>>)

\* new Int64("0x0123456789abcdef")
theInt64 == Val("Int64", <<1, 35, 69, 103, 137, 171, 205, 239>>)

number(n) == Val("number", n)
string(s) == Val("string", s)
foo == <<102, 111, 111>>
bar == string(<<98, 97, 114>>)
list == Val("array", <<true, false, number(1), string(<<115>>)>>)
nested ==
  Val("object", << <<<<110>>, Val("object", << <<<<115>>, hello>>,
                                               <<<<108>>, list>> >>)>> >>)

\* The values of the round trip of src/bser/test.ts.
seeds ==
  <<number(1), hello, OneAndAHalf, false, true, theInt64, number(65536),
    null, Val("array", <<number(1), number(2), number(3)>>),
    Val("object", << <<foo, bar>> >>), nested>>

\* More values: 0, -1, the numbers around the safe integers, carriers of
\* small integers, Infinity, the empty string, one of characters of two and
\* of three bytes, empty containers, and objects with undefined properties.
others ==
  <<number(0), number(-1), maxSafe, unsafe, twoTo60, minusTwoTo60,
    Int64(number(5)), Int64(number(-1)), Infinity, string(<<>>),
    string(<<233, 8364>>),
    Val("array", <<>>), Val("object", <<>>),
    Val("object", << <<foo, undefined>> >>),
    Val("object", << <<foo, undefined>>, <<<<97>>, number(300)>>,
                     <<<<98>>, Val("object", << <<foo, undefined>> >>)>> >>),
    Val("array", <<Int64(number(5)), twoTo60, theInt64>>)>>

Values == nearLimits \o seeds \o <<Val("array", seeds)>> \o others

\* PDUs that dumpToBuffer does not make: the template of src/bser/test.ts,
\* and lengths of one and of two bytes in the header.
Pdus ==
  << <<0, 1, 3, 40, 11, 0, 3, 2, 2, 3, 4, 110, 97, 109, 101, 2, 3, 3, 97,
       103, 101, 3, 3, 2, 3, 4, 102, 114, 101, 100, 3, 20, 2, 3, 4, 112,
       101, 116, 101, 3, 30, 12, 3, 25>>,
     <<0, 1, 3, 2, 3, 1>>,
     <<0, 1, 4, 3, 0, 4, 44, 1>> >>

ExtraBytes == {0, 1, 255}
Extras == UNION {[1..n -> ExtraBytes] : n \in 1..MaxExtra}

InitCodec ==
  /\ ClientIdle
  /\ \/ \E i \in 1..Len(Values) :
          io = [op |-> "new", from |-> "value", v |-> Values[i],
                wire |-> <<>>, ret |-> undefined, err |-> ""]
     \/ \E i \in 1..Len(Pdus) :
          io = [op |-> "wire", from |-> "wire", v |-> undefined,
                wire |-> Pdus[i], ret |-> undefined, err |-> ""]
  /\ acc = Null /\ state = Null /\ pduLen = Null /\ wire = Null
  /\ timers = Null /\ events = Null

\* const buf = dumpToBuffer(v)
DumpToBuffer ==
  /\ io.op = "new"
  /\ \E c \in {dumpToBuffer(io.v)} :
       io' = [io EXCEPT !.op = "dump", !.err = c.err,
                        !.wire = IF c.err = "" THEN the(c.ret) ELSE <<>>]
  /\ UNCHANGED <<clientVars, envVars, acc, state, pduLen, wire, timers,
                 events>>

\* loadFromBuffer(input): what it returns, or what it throws.
Loaded(op, input) ==
  /\ \E b \in {loadFromBuffer(Val("Buffer", input))} :
       io' = [io EXCEPT !.op = op, !.wire = input, !.err = b.buf.err,
                        !.ret = IF b.buf.err = "" THEN b.buf.ret
                                ELSE undefined]
  /\ UNCHANGED <<clientVars, envVars, acc, state, pduLen, wire, timers,
                 events>>

HasPdu == io.op \in {"dump", "wire"} /\ io.err = ""

LoadFromBuffer ==
  /\ HasPdu
  /\ Loaded("load", io.wire)

LoadExcess ==
  /\ HasPdu
  /\ \E x \in Extras : Loaded("excess", io.wire \o x)

LoadPrefix ==
  /\ HasPdu
  /\ \E n \in 0..(Len(io.wire) - 1) : Loaded("prefix", Sub(io.wire, 1, n))

NextCodec == DumpToBuffer \/ LoadFromBuffer \/ LoadExcess \/ LoadPrefix

SpecCodec == InitCodec /\ [][NextCodec]_vars

\* Whether v is an integer-valued number.
IsInteger(v) == typeof(v) \in {"number", "bignum"}

\* The smallest tag whose range holds |v|, and the bytes of that tag.
tagOf(v) ==
  IF typeof(v) = "number" /\ -127 <= the(v) /\ the(v) <= 127 THEN BSER_INT8
  ELSE IF typeof(v) = "number" /\ -32767 <= the(v) /\ the(v) <= 32767
    THEN BSER_INT16
  ELSE IF typeof(v) = "number" /\ -2147483647 <= the(v) THEN BSER_INT32
  ELSE BSER_INT64

widthOf(tag) == 2 ^ (tag - BSER_INT8)

\* Whether the integer-valued number v is below 2^53 in magnitude.
Safe(v) ==
  \/ typeof(v) = "number"
  \/ LET m == IF the(v)[8] >= 128 THEN Not(the(v)) ELSE the(v)
     IN m[8] = 0 /\ m[7] < 32

\* The PDU of an integer: the header, the tag, the integer in its width.
IntegerPdu ==
  /\ io.err = ""
  /\ Len(io.wire) = 8 + widthOf(tagOf(io.v))
  /\ io.wire[8] = tagOf(io.v)

\* C15: an integer-valued number is encoded with the smallest tag whose
\* range holds its magnitude, -128 with INT16; what is written decodes to
\* the number when its magnitude is below 2^53, and to the Int64 that holds
\* it when it is beyond.
C15_IntegerWidth ==
  io.from = "value" /\ IsInteger(io.v) =>
    /\ io.op = "dump" => IntegerPdu
    /\ io.op = "load" =>
         /\ io.err = ""
         /\ io.ret = (IF Safe(io.v) THEN io.v ELSE Int64(io.v))

\* The claim as it stands: what is written decodes to the number, whatever
\* its magnitude.
C15_IntegerWidthClaimed ==
  io.from = "value" /\ IsInteger(io.v) =>
    /\ io.op = "dump" => IntegerPdu
    /\ io.op = "load" => io.err = "" /\ io.ret = io.v

\* -128 was written as INT16 and read back.
C15_Witness ==
  /\ io.op = "load" /\ io.from = "value" /\ io.v = number(-128)
  /\ io.wire[8] = BSER_INT16 /\ io.ret = io.v

RECURSIVE erased(_)
\* v without the properties whose value is undefined.
erased(v) ==
  IF typeof(v) = "array"
    THEN Val("array", [i \in 1..Len(the(v)) |-> erased(the(v)[i])])
  ELSE IF typeof(v) = "object"
    THEN LET d == SelectSeq(the(v), LAMBDA p : p[2] # undefined)
         IN Val("object", [i \in 1..Len(d) |-> <<d[i][1], erased(d[i][2])>>])
  ELSE v

RECURSIVE narrowed(_)
\* v with each Int64 that holds a number below 2^53 in magnitude replaced by
\* the number, and each number beyond by the Int64 that holds it.
narrowed(v) ==
  IF typeof(v) = "array"
    THEN Val("array", [i \in 1..Len(the(v)) |-> narrowed(the(v)[i])])
  ELSE IF typeof(v) = "object"
    THEN Val("object", [i \in 1..Len(the(v)) |->
                          <<the(v)[i][1], narrowed(the(v)[i][2])>>])
  ELSE IF typeof(v) = "Int64" /\ isFinite(valueOf(v)) THEN valueOf(v)
  ELSE IF IsInteger(v) /\ ~Safe(v) THEN Int64(v)
  ELSE v

C16_ExcessAndPrefix ==
  io.op \in {"excess", "prefix"} => io.err # "" /\ io.ret = undefined

\* The template PDU followed by bytes was refused for these bytes.
C16_Witness ==
  /\ io.op = "excess" /\ io.from = "wire"
  /\ Sub(io.wire, 1, Len(Pdus[1])) = Pdus[1]
  /\ io.err = "excess data found after input buffer"

(***************************************************************************)
(* The specification of the decoder in asynchronous mode: a stream of      *)
(* PDUs arrives in chunks of any lengths, each passed to append(), and the *)
(* timers of processLater run in between.                                  *)
(***************************************************************************)
\* Bounds: the PDUs of a stream, and the chunks it arrives in.
MaxPdus == 2
MaxChunks == 3

\* The PDUs of the streams: 1 with a length of one byte in the header, 7
\* with a length of two bytes, and the empty string as dumpToBuffer writes
\* it, with a length of four bytes.
StreamPdus ==
  << <<0, 1, 3, 2, 3, 1>>,
     <<0, 1, 4, 2, 0, 3, 7>>,
     <<0, 1, 5, 3, 0, 0, 0, 2, 3, 0>> >>

\* What loadFromBuffer gives for each of them.
alone ==
  [i \in 1..Len(StreamPdus) |->
     loadFromBuffer(Val("Buffer", StreamPdus[i])).buf.ret]

RECURSIVE concat(_)
concat(ss) == IF ss = <<>> THEN <<>> ELSE Head(ss) \o concat(Tail(ss))

\* The bytes of the stream, and the offset behind its k-th PDU.
stream == concat(wire.pdus)
endOf(k) == Len(concat(Sub(wire.pdus, 1, k)))

\* The decoder, from the variables that hold it.
Decoder ==
  [buf |-> acc, state |-> state, pduLen |-> pduLen, events |-> events,
   timers |-> timers, returned |-> FALSE]

InitBunser ==
  /\ ClientIdle
  /\ \E n \in 1..MaxPdus : \E ps \in [1..n -> 1..Len(StreamPdus)] :
       wire = [pdus |-> [i \in 1..n |-> StreamPdus[ps[i]]], fed |-> 0,
               chunks |-> 0,
               alone |-> [i \in 1..n |-> alone[ps[i]]]]
  /\ acc = BunserBuf.buf /\ state = BunserBuf.state
  /\ pduLen = BunserBuf.pduLen /\ events = BunserBuf.events
  /\ timers = BunserBuf.timers /\ io = Null

\* The decoder after a call or a callback.
Becomes(b) ==
  /\ acc' = b.buf /\ state' = b.state /\ pduLen' = b.pduLen
  /\ events' = b.events /\ timers' = b.timers
  /\ UNCHANGED <<clientVars, envVars, io>>

\* bunser.append(chunk) with the next n bytes of the stream; the last of
\* MaxChunks chunks has all the bytes that are left.
Feed ==
  /\ wire.fed < Len(stream)
  /\ \E n \in 1..(Len(stream) - wire.fed) :
       /\ wire.chunks + 1 = MaxChunks => n = Len(stream) - wire.fed
       /\ wire' = [wire EXCEPT !.fed = @ + n, !.chunks = @ + 1]
       /\ \E b \in {BunserBuf_append(
                      Decoder,
                      Val("Buffer", Sub(stream, wire.fed + 1, wire.fed + n)),
                      FALSE)} : Becomes(b)

\* A timer of processLater runs.
Timer ==
  /\ timers > 0
  /\ UNCHANGED wire
  /\ \E b \in {onTimeout(Decoder)} : Becomes(b)

NextBunser == Feed \/ Timer

\* Every chunk of the stream arrives, and every timer runs.
SpecBunser ==
  InitBunser /\ [][NextBunser]_vars /\ WF_vars(Feed) /\ WF_vars(Timer)

\* The values of the `value` events so far, in order.
emitted ==
  LET es == SelectSeq(events, LAMBDA e : e[1] = "value")
  IN [i \in 1..Len(es) |-> es[i][2]]

\* What decoding each PDU of the stream on its own gives.
expected == wire.alone

\* What was emitted is the start of what is expected, and no error was.
InWireOrder ==
  /\ \A i \in 1..Len(events) : events[i][1] # "error"
  /\ Len(emitted) <= Len(expected)
  /\ \A i \in 1..Len(emitted) : emitted[i] = expected[i]

\* C12: however a stream of PDUs is split into chunks, the decoder emits
\* the values of the PDUs in wire order and no others, and in the end one
\* for each PDU.
C12_Chunked == []InWireOrder /\ <>(emitted = expected)

\* Two PDUs arrived in three chunks, and their two values were emitted.
C12_Witness ==
  /\ Len(wire.pdus) = 2 /\ wire.fed = Len(stream) /\ wire.chunks = 3
  /\ emitted = expected /\ emitted[1] # emitted[2]
  /\ timers = 0

\* The value decoder ran only with the whole payload readable.
WholePdu ==
  \A i \in 1..Len(events) :
    events[i][1] = "decode" => events[i][2] >= events[i][3]

\* A `value` event in this step.
ValueStep == Len(emitted') = Len(emitted) + 1

\* The bytes of the stream that were read: those fed less those unread.
cursor == wire.fed - readAvail(acc)

\* C13: the value decoder runs only when pduLen bytes are readable, and at
\* a `value` event the read cursor is behind the PDU of the value: behind
\* its header, its length and pduLen bytes of payload.
C13_WholePdu ==
  /\ []WholePdu
  /\ [][ValueStep => cursor' = endOf(Len(emitted'))]_vars

\* The second PDU of a stream was decoded when its last byte had arrived.
C13_Witness ==
  /\ Len(emitted) = 2 /\ cursor = endOf(2)
  /\ events[Len(events) - 1] = <<"decode", the(pduLen), the(pduLen)>>

\* ---------------------------------------------------------------------------
\* The capability check of the client: cap_versions, vers_compare, have_cap,
\* Client._synthesizeCapabilityCheck and Client.capabilityCheck.
\*
\* A version string is the sequence of its characters, a capability name is
\* a string, and an object is the function of its own properties.

\* Bound of the model: the names one call of capabilityCheck asks for,
\* optional and required together.
MaxNames == 2

\* const cap_versions = {...}
cap_versions ==
  [name \in {"cmd-watch-del-all", "cmd-watch-project", "relative_root",
             "term-dirname", "term-idirname", "wildmatch"} |->
     CASE name = "cmd-watch-del-all" -> <<"3", ".", "1", ".", "1">>
       [] name = "cmd-watch-project" -> <<"3", ".", "1">>
       [] name = "relative_root" -> <<"3", ".", "3">>
       [] name = "term-dirname" -> <<"3", ".", "1">>
       [] name = "term-idirname" -> <<"3", ".", "1">>
       [] name = "wildmatch" -> <<"3", ".", "7">>]

\* The properties an object literal inherits from Object.prototype.
ObjectPrototype ==
  {"constructor", "hasOwnProperty", "isPrototypeOf", "propertyIsEnumerable",
   "toLocaleString", "toString", "valueOf", "__proto__"}

\* name in obj, for an object literal: own and inherited properties.
hasProperty(name, obj) == name \in DOMAIN obj \/ name \in ObjectPrototype

\* obj[name], for an object literal whose own properties are strings.
getProperty(obj, name) ==
  IF name \in DOMAIN obj THEN Val("string", obj[name])
  ELSE IF name \in ObjectPrototype THEN Val("function", name)
  ELSE undefined

\* s.split(sep), sep one character
RECURSIVE split(_, _)
split(s, sep) ==
  IF \A i \in 1..Len(s) : s[i] # sep THEN <<s>>
  ELSE LET i == CHOOSE j \in 1..Len(s) :
                  s[j] = sep /\ \A k \in 1..(j - 1) : s[k] # sep
       IN <<Sub(s, 1, i - 1)>> \o split(Sub(s, i + 1, Len(s)), sep)

NaN == Val("NaN", 0)

digits ==
  [ch \in {"0", "1", "2", "3", "4", "5", "6", "7", "8", "9"} |->
     CASE ch = "0" -> 0 [] ch = "1" -> 1 [] ch = "2" -> 2 [] ch = "3" -> 3
       [] ch = "4" -> 4 [] ch = "5" -> 5 [] ch = "6" -> 6 [] ch = "7" -> 7
       [] ch = "8" -> 8 [] ch = "9" -> 9]

\* The value of the longest prefix of digits of s, from its first n digits on.
RECURSIVE parseFrom(_, _, _)
parseFrom(s, i, n) ==
  IF i > Len(s) \/ s[i] \notin DOMAIN digits THEN n
  ELSE parseFrom(s, i + 1, 10 * n + digits[s[i]])

\* parseInt(s), s without white space, sign or 0x prefix
parseInt(s) ==
  IF s = <<>> \/ s[1] \notin DOMAIN digits THEN NaN
  ELSE number(parseFrom(s, 1, 0))

\* s[i] || "0", i counted from 1
orZero(s, i) == IF i <= Len(s) /\ s[i] # <<>> THEN s[i] ELSE <<"0">>

\* x - y
minus(x, y) == IF NaN \in {x, y} THEN NaN ELSE number(the(x) - the(y))

\* The loop of vers_compare from component i on.
RECURSIVE compareFrom(_, _, _)
compareFrom(s, t, i) ==
  IF i > 3 THEN number(0)
  ELSE LET d == minus(parseInt(orZero(s, i)), parseInt(orZero(t, i)))
       IN IF d # number(0) THEN d ELSE compareFrom(s, t, i + 1)

\* What a call returns, or what it throws.
returns(val) == [ret |-> val, err |-> ""]
throws(name) == [ret |-> undefined, err |-> name]

\* function vers_compare(a, b): a.split and b.split are functions only when
\* a and b are strings.
vers_compare(a, b) ==
  IF typeof(a) # "string" \/ typeof(b) # "string" THEN throws("TypeError")
  ELSE returns(compareFrom(split(the(a), "."), split(the(b), "."), 1))

\* d >= 0
notNegative(d) == d # NaN /\ the(d) >= 0

\* function have_cap(vers, name)
have_cap(vers, name) ==
  IF hasProperty(name, cap_versions)
    THEN LET r == vers_compare(vers, getProperty(cap_versions, name))
         IN IF r.err # "" THEN r ELSE returns(notNegative(r.ret))
    ELSE returns(FALSE)

\* obj[key] = val
put(obj, key, val) ==
  [k \in DOMAIN obj \cup {key} |-> IF k = key THEN val ELSE obj[k]]

\* `client required capability \`${name}\` is not supported by this server`
notSupported(name) ==
  <<"client required capability", name, "is not supported by this server">>

\* names.forEach(...) of _synthesizeCapabilityCheck from the i-th name on;
\* r is the response so far, or what a callback threw.
RECURSIVE forEachName(_, _, _, _)
forEachName(r, names, i, required) ==
  IF i > Len(names) \/ r.err # "" THEN r
  ELSE LET have == have_cap(Val("string", r.ret.version), names[i])
           caps == put(r.ret.capabilities, names[i], have.ret)
           resp == [r.ret EXCEPT !.capabilities = caps]
       IN IF have.err # "" THEN throws(have.err)
          ELSE forEachName(
                 returns(IF required /\ ~have.ret
                           THEN put(resp, "error", notSupported(names[i]))
                           ELSE resp),
                 names, i + 1, required)

\* Client._synthesizeCapabilityCheck(resp, optional, required)
synthesizeCapabilityCheck(resp, optional, required) ==
  forEachName(
    forEachName(returns(put(resp, "capabilities", <<>>)), optional, 1, FALSE),
    required, 1, TRUE)

pendingPromise == [state |-> "pending", value |-> undefined]
resolve(value) == [state |-> "resolved", value |-> value]
reject(error) == [state |-> "rejected", value |-> error]

\* The completion capabilityCheck gives to this.command: the promise after
\* it ran. A completion that throws leaves the promise pending.
completion(error, resp, optional, required) ==
  IF error # null THEN reject(error)
  ELSE IF ~hasProperty("capabilities", resp)
    THEN LET r == synthesizeCapabilityCheck(resp, optional, required)
         IN IF r.err # "" THEN pendingPromise
            ELSE IF "error" \in DOMAIN r.ret
              THEN reject(Val("Error", [message |-> r.ret.error,
                                        watchmanResponse |-> r.ret]))
              ELSE resolve(r.ret)
    ELSE resolve(resp)

\* The names a caller asks for: the six of the table, one that no table
\* has, and one that every object inherits.
CapNames == DOMAIN cap_versions \cup {"no-such-capability", "constructor"}

\* The versions a server reports, each with the numbers of its first three
\* components as a reader takes them (none: a component is not a number).
Versions ==
  << [text |-> <<"3">>, num |-> <<3, 0, 0>>],
     [text |-> <<"3", ".", "1">>, num |-> <<3, 1, 0>>],
     [text |-> <<"3", ".", "1", ".", "1">>, num |-> <<3, 1, 1>>],
     [text |-> <<"3", ".", "1", ".", "0", ".", "9">>, num |-> <<3, 1, 0>>],
     [text |-> <<"3", ".", "3">>, num |-> <<3, 3, 0>>],
     [text |-> <<"3", ".", "0", "7">>, num |-> <<3, 7, 0>>],
     [text |-> <<"3", ".", "1", "0">>, num |-> <<3, 10, 0>>],
     [text |-> <<"2", ".", "9", ".", "9">>, num |-> <<2, 9, 9>>],
     [text |-> <<"4", ".", "9", ".", "0">>, num |-> <<4, 9, 0>>],
     [text |-> <<"2", "0", "2", "3", ".", "0", "1", ".", "0", "2", ".", "0",
                 "0">>, num |-> <<2023, 1, 2>>],
     [text |-> <<"3", ".", "x">>, num |-> <<>>] >>

NameLists == UNION {[1..n -> CapNames] : n \in 0..MaxNames}

\* The arguments of capabilityCheck: each list given or left out.
Requests ==
  {[optional |-> o, required |-> r] :
     o \in {undefined} \cup NameLists, r \in {undefined} \cup NameLists}

\* caps.optional || []
orEmpty(names) == IF names = undefined THEN <<>> ELSE names

requested == Range(io.optional) \cup Range(io.required)

InitCap ==
  /\ ClientIdle
  /\ \E caps \in Requests :
       /\ Len(orEmpty(caps.optional)) + Len(orEmpty(caps.required)) <= MaxNames
       /\ io = [op |-> "new", caps |-> caps, optional |-> <<>>,
                required |-> <<>>, version |-> 0, resp |-> <<>>,
                promise |-> pendingPromise]
  /\ acc = Null /\ state = Null /\ pduLen = Null /\ wire = Null
  /\ timers = Null /\ events = Null

CapUnchanged ==
  UNCHANGED <<clientVars, envVars, acc, state, pduLen, wire, timers, events>>

\* capabilityCheck(caps), up to this.command(["version", {...}], ...)
CapabilityCheck ==
  /\ io.op = "new"
  /\ io' = [io EXCEPT !.op = "command",
                      !.optional = orEmpty(io.caps.optional),
                      !.required = orEmpty(io.caps.required)]
  /\ CapUnchanged

Completed(op, version, error, resp) ==
  /\ io.op = "command"
  /\ io' = [io EXCEPT !.op = op, !.version = version, !.resp = resp,
                      !.promise = completion(error, resp, io.optional,
                                             io.required)]
  /\ CapUnchanged

\* A server without capabilities answers the command.
AnswerVersion ==
  \E i \in 1..Len(Versions) :
    Completed("version", i, null, [version |-> Versions[i].text])

\* A server with capabilities answers the command; one that lacks a
\* required capability answers with an error instead.
AnswerCapabilities ==
  \E i \in 1..Len(Versions), has \in SUBSET requested :
    /\ Range(io.required) \subseteq has
    /\ Completed("capabilities", i, null,
                 [version |-> Versions[i].text,
                  capabilities |-> [name \in requested |-> name \in has]])

\* The command completes with an error: an error response, or a
\* cancellation.
AnswerError ==
  \E why \in {"The client was ended", "The watchman connection was closed",
              "error response"} :
    Completed("error", 0, Val("Error", why), <<>>)

NextCap ==
  CapabilityCheck \/ AnswerVersion \/ AnswerCapabilities \/ AnswerError

SpecCap == InitCap /\ [][NextCap]_vars

\* a >= b, component by component
atLeast(a, b) ==
  \/ a[1] > b[1]
  \/ a[1] = b[1] /\ a[2] > b[2]
  \/ a[1] = b[1] /\ a[2] = b[2] /\ a[3] >= b[3]

\* The minimum versions of the capability table, as numbers.
minimum ==
  [name \in DOMAIN cap_versions |->
     CASE name = "cmd-watch-del-all" -> <<3, 1, 1>>
       [] name = "relative_root" -> <<3, 3, 0>>
       [] name = "wildmatch" -> <<3, 7, 0>>
       [] OTHER -> <<3, 1, 0>>]

supported(name) ==
  /\ name \in DOMAIN minimum
  /\ atLeast(Versions[io.version].num, minimum[name])

\* The capabilities map the promise completed or failed with.
answer ==
  IF io.promise.state = "resolved" THEN io.promise.value
  ELSE the(io.promise.value).watchmanResponse

Synthesized ==
  /\ io.promise.state \in {"resolved", "rejected"}
  /\ DOMAIN answer.capabilities = requested
  /\ \A name \in requested : answer.capabilities[name] = supported(name)
  /\ io.promise.state = "rejected"
       <=> \E name \in Range(io.required) : ~supported(name)
  /\ io.promise.state = "rejected"
       => \E name \in Range(io.required) :
            ~supported(name)
            /\ the(io.promise.value).message = notSupported(name)

OldServer == io.op = "version" /\ Versions[io.version].num # <<>>

\* C19: when the response has no `capabilities` field, capabilityCheck
\* completes or fails with a capabilities map in which every requested
\* name, optional or required, is true exactly when the name is in the
\* capability table and the server's version is at least the table's,
\* compared number by number over the first three components, and it fails
\* exactly when a required name is false.
C19_Synthesized == OldServer => Synthesized

\* The same for the calls that ask for no name every object inherits.
TableNamesSynthesized ==
  OldServer /\ requested \cap ObjectPrototype = {} => Synthesized

TableNamesWitness ==
  /\ OldServer /\ io.promise.state = "rejected"
  /\ Versions[io.version].num = <<3, 10, 0>>
  /\ io.optional = <<"wildmatch">>
  /\ io.required = <<"no-such-capability">>

(***************************************************************************)
(* More properties of the client.                                          *)
(***************************************************************************)

\* The commands submitted in the step, oldest first.
Submitted == [i \in 1..(Len(sub') - Len(sub)) |-> Len(sub) + i]

\* The reason cancelCommands is given by the handler that ran.
reasonOf(name) == IF name = "end" THEN endedMessage ELSE closedMessage

\* C21: cancelCommands fails exactly the commands that were queued or in
\* flight when it started, the one in flight first and then the queue in
\* order; the commands that those completions submit are not failed by it:
\* they are, in the order of their submission, what is in flight and queued
\* when the handler is done.
C21_Cancel ==
  [][(Ran("end") \/ Ran("teardown") \/ Ran("connectfail")) =>
       /\ Cancels(reasonOf(out'[1][2]))
       /\ (IF currentCommand' # Null THEN <<currentCommand'>> ELSE <<>>)
            \o commands' = Submitted]_vars

\* C21, witness: the teardown of a connection has failed the command in
\* flight and then a queued one, and a command that one of the completions
\* submitted is queued.
C21_Witness ==
  /\ out # <<>> /\ out[1][2] = "teardown"
  /\ Len(Cbs(out)) = 2
  /\ Cbs(out)[1][3] \in {written[i][1] : i \in 1..Len(written)}
  /\ Cbs(out)[2][3] \notin {written[i][1] : i \in 1..Len(written)}
  /\ commands # <<>> /\ commands[1] > Cbs(out)[2][3]

\* The connect attempts in progress: connect() invocations that wait for
\* the socket discovery or for Deno.connect.
Attempts == {k \in Conns : task[k] \in {"status", "output", "connect"}}

\* The step starts a connect attempt.
StartsAttempt == \E k \in Conns : task[k] = "none" /\ task'[k] # "none"

\* At no time are two connect attempts in progress.
OneAttempt == Cardinality(Attempts) <= 1

\* A call of command() starts a connect attempt exactly when there is no
\* socket and no attempt in progress.
CommandStartsAttempt ==
  [][Ran("command") =>
       (StartsAttempt <=> (socket = Null /\ Attempts = {}))]_vars

\* C22: the `connecting` guard prevents concurrent connect attempts: at no
\* time are two connect attempts in progress, and a call of command()
\* starts one exactly when there is no socket and no attempt in progress.
C22_ConnectingGuard == []OneAttempt /\ CommandStartsAttempt

\* C23: in asynchronous mode a turn of the scheduler (a call of append, or
\* a timer of processLater) emits at most one `value`; the turn that emits
\* one is a timer, it leaves the decoder in ST_NEED_PDU, and when unread
\* bytes remain it has set one timer for a later turn and has decoded
\* nothing of them.
C23_OneValuePerTurn ==
  [][/\ Len(emitted') <= Len(emitted) + 1
     /\ ValueStep =>
          /\ wire' = wire
          /\ state' = ST_NEED_PDU
          /\ timers' = timers - 1 + (IF readAvail(acc') > 0 THEN 1 ELSE 0)
          /\ cursor' = endOf(Len(emitted'))]_vars

\* C23, witness: two PDUs arrived in one chunk; the value of the first was
\* emitted, and the second waits for the timer that was set.
C23_Witness ==
  /\ Len(wire.pdus) = 2 /\ wire.chunks = 1 /\ wire.fed = Len(stream)
  /\ Len(emitted) = 1
  /\ state = ST_NEED_PDU /\ readAvail(acc) = Len(wire.pdus[2])
  /\ timers = 1

\* The event loop runs every task that is ready: the awaits of connect()
\* resolve, a connection that is up ends at some time (the server closes
\* it, or a read throws), and the timers of the decoders run.  The
\* application is free to make no further call.
Fairness ==
  \A k \in Conns :
    /\ WF_vars(DiscoverStatus(k))
    /\ WF_vars(DiscoverOutput(k))
    /\ WF_vars(ConnectOk(k) \/ ConnectFail(k))
    /\ WF_vars(Teardown(k))
    /\ WF_vars(ProcessValue(k))

SpecLive == Init /\ [][Next]_vars /\ Fairness

\* C24: every command passed to command() has its completion invoked in
\* the end, when every connection that is up ends at some time.
C24_Completion ==
  \A c \in 1..MaxInputs : (c <= Len(sub)) ~> (c \in DoneCmds)

\* Every completion that has run with a value got the server's answer to
\* its own command, from the connection the command was written to.
Attributed ==
  \A i \in 1..Len(done) :
    done[i].res \in {"ok", "error"} =>
      /\ done[i].val.for = done[i].cmd
      /\ <<done[i].cmd, done[i].val.conn>> \in Range(written)

\* Connection k has ended: end() closed it, or its read loop is over.
Ended(k) == k \in closed \/ task[k] \in {"ended", "cfail"}

\* A value of the decoder of an ended connection completes no command and
\* takes none from the queue.
StaleValueIgnored ==
  [][(Ran("value") /\ Ended(out'[1][3])) =>
       UNCHANGED <<commands, currentCommand, done, written>>]_vars

\* C25: the completion of a command receives only a value that was decoded
\* from the connection the command was written to and that arrived after
\* it was written; a value still pending in the decoder of an ended
\* connection is delivered to no later command and takes no later command
\* from the queue.
C25_Attribution == []Attributed /\ StaleValueIgnored

\* C26: whenever the client holds an open socket it holds the decoder that
\* was installed for that socket.
C26_SocketHasDecoder == socket # Null => bunser = socket

\* The event loop runs every task that is ready, and the read of a socket
\* that the client has closed throws; a connection that nobody closes may
\* stay up for ever.
FairnessEnd ==
  \A k \in Conns :
    /\ WF_vars(DiscoverStatus(k))
    /\ WF_vars(DiscoverOutput(k))
    /\ WF_vars(ConnectOk(k) \/ ConnectFail(k))
    /\ WF_vars(k \in closed /\ Teardown(k))
    /\ WF_vars(ProcessValue(k))

SpecEnd == Init /\ [][Next]_vars /\ FairnessEnd

\* end() has just returned, and its completions submitted no command.
EndCalled == out # <<>> /\ out[1][2] = "end" /\ Pending(Cl) = {}

\* The client holds no socket, and no connect() is under way or reading.
Quiet ==
  /\ socket = Null
  /\ \A k \in Conns : task[k] \in {"none", "dfail", "cfail", "ended"}

\* C27: after end(), unless a further command() is submitted, the client
\* holds no socket in the end and every read loop is over.
C27_EndTerminates ==
  \A n \in 0..MaxInputs :
    (EndCalled /\ Len(sub) = n) ~> (Len(sub) > n \/ Quiet)

====
